---- MODULE Spec2Model ----
(***************************************************************************)
(* The training orchestration of main.py: main() (option handling, resume  *)
(* and pretrained loading, optimizer creation, epoch loop), train() (the   *)
(* learning-rate policy and the per-batch optimisation step),              *)
(* adjust_learning_rate() and save_checkpoint().                           *)
(*                                                                         *)
(* The network, the loss, the SGD optimizer and torch.save/torch.load are  *)
(* external libraries.  Their values are kept symbolically: the weights of *)
(* a model are the initial weights plus the sequence of updates applied to *)
(* them, each update recording the gradients it used (which batches they   *)
(* came from and the norm they were clipped to), the learning rate and the *)
(* state of the momentum buffer.  Two models are equal exactly when they   *)
(* were produced by the same initial weights and the same updates.         *)
(* Learning rates and clip thresholds are exact rationals <<num, den>>.    *)
(***************************************************************************)
EXTENDS Integers, Sequences, FiniteSets, TLC

\* ------------------------------------------------------------------ bounds
MaxEpoch == 5        \* largest --nEpochs given on a command line
MaxBatches == 2      \* largest number of batches the data loader yields
MaxRuns == 2         \* number of times the program is started
LogBatches == 201    \* batches per epoch of the long-epoch specification

\* ------------------------------------------------------- program constants
LogEvery == 100      \* if iteration%100 == 0
NumGroups == 1       \* optim.SGD(model.parameters(), ...) makes one group

NoValue == <<>>      \* None, for a value that is a tuple when present

\* ------------------------------------------------------------- rationals
RECURSIVE GCD(_, _)
GCD(a, b) == IF b = 0 THEN a ELSE GCD(b, a % b)

Rat(n, d) == LET g == GCD(n, d) IN <<n \div g, d \div g>>

RatMul(x, y) == Rat(x[1] * y[1], x[2] * y[2])

RatDiv(x, y) == Rat(x[1] * y[2], x[2] * y[1])

RECURSIVE Pow2(_)
Pow2(k) == IF k = 0 THEN 1 ELSE 2 * Pow2(k - 1)

\* 0.5 ** k
HalfPow(k) == IF k >= 0 THEN <<1, Pow2(k)>> ELSE <<Pow2(-k), 1>>

\* ------------------------------------------------------ strings and paths
\* "{}".format(epoch) for epoch >= 0: the decimal digits
RECURSIVE Format(_)
Digit(d) == <<"0", "1", "2", "3", "4", "5", "6", "7", "8", "9">>[d + 1]

Format(n) == IF n < 10 THEN <<Digit(n)>> ELSE Format(n \div 10) \o <<Digit(n % 10)>>

ModelOutPath(e) == <<"model/", "model_epoch_">> \o Format(e) \o <<".pth">>

NoPath == <<>>
MissingPath == <<"missing.pth">>
CheckpointPath == <<"checkpoint.pth">>
PretrainedPath == <<"pretrained.pth">>

\* ---------------------------------------------------------------- values
\* DRRN(): freshly initialised weights of the process started as run r
Fresh(r) == [init |-> <<"fresh", r>>, updates |-> <<>>]

\* the weights stored in the two checkpoints that no process of the model wrote
CheckpointModel == [init |-> <<"checkpoint", 0>>, updates |-> <<>>]

PretrainedModel == [init |-> <<"pretrained", 0>>, updates |-> <<>>]

CheckpointEpochs == {2, MaxEpoch}
PretrainedEpochs == {7}
LearningRates == {<<1, 10>>}
Steps == {1, 2}
Clips == {<<1, 100>>}
Momenta == {0, 9}
StartEpochs == {1, 2}
NEpochs == {MaxEpoch - 2, MaxEpoch}

ZeroGrads == [src |-> <<>>, max_norm |-> NoValue]

\* before line 74 there is no optimizer
NoOptimizer == [param_groups |-> <<>>, momentum |-> 0, nbuf |-> 0, steps |-> 0]

\* the batch the data loader yields at iteration i of epoch e: the data order
\* is an input of the program, the same whenever epoch e is run
Batch(e, i) == <<e, i>>

VARIABLES
    files,        \* the file system: path -> [epoch, model]
    model_dir,    \* whether the directory model/ exists
    num_batches,  \* len(training_data_loader)
    runs,         \* number of processes started so far
    pc,           \* position of the running process
    argv,         \* the command line of the running process
    opt,          \* the global opt
    model,        \* the global model: its weights
    optimizer,    \* param_groups and the momentum buffer
    epoch,        \* main's loop variable
    next_epoch,   \* the next value of main's range(...)
    iteration,    \* train's loop variable
    batch,        \* train's loop variable
    loss,         \* train's loss
    grads,        \* the .grad of the parameters
    lr,           \* train's lr
    clip,         \* train's clip
    out,          \* the lines printed by the running process
    saved         \* the paths torch.save has written in the running process

vars == <<files, model_dir, num_batches, runs, pc, argv, opt, model, optimizer,
          epoch, next_epoch, iteration, batch, loss, grads, lr, clip, out, saved>>

isfile(path) == path \in DOMAIN files

\* ------------------------------------------------------------------- main
\* lines 27-52: a process started with the command line a parses its options
\* and builds the model; r is the number of processes started before it
Main(a, r) ==
    /\ runs' = r + 1
    /\ argv' = a
    /\ opt' = a
    /\ model' = Fresh(r + 1)
    /\ optimizer' = NoOptimizer
    /\ epoch' = 0
    /\ next_epoch' = 0
    /\ iteration' = 0
    /\ batch' = NoValue
    /\ loss' = NoValue
    /\ grads' = ZeroGrads
    /\ lr' = NoValue
    /\ clip' = NoValue
    /\ out' = <<>>
    /\ saved' = <<>>
    /\ pc' = "resume"

\* a resume that takes the weights of the checkpoint and not its epoch
Resume_KeepsStartEpoch ==
    /\ pc = "resume"
    /\ pc' = "pretrained"
    /\ IF opt.resume # NoPath
       THEN IF isfile(opt.resume)
            THEN /\ model' = files[opt.resume].model
                 /\ out' = Append(out, <<"===> loading checkpoint: ", opt.resume>>)
            ELSE /\ out' = Append(out, <<"===> no checkpoint found at ", opt.resume>>)
                 /\ UNCHANGED model
       ELSE UNCHANGED <<model, out>>
    /\ UNCHANGED <<files, model_dir, num_batches, runs, argv, opt, optimizer,
                   epoch, next_epoch, iteration, batch, loss, grads, lr, clip, saved>>

\* a resume that raises when the file is missing
Resume_RaisesNotFound ==
    /\ pc = "resume"
    /\ IF opt.resume # NoPath
       THEN IF isfile(opt.resume)
            THEN LET checkpoint == files[opt.resume] IN
                 /\ opt' = [opt EXCEPT !.start_epoch = checkpoint.epoch + 1]
                 /\ model' = checkpoint.model
                 /\ out' = Append(out, <<"===> loading checkpoint: ", opt.resume>>)
                 /\ pc' = "pretrained"
            ELSE /\ pc' = "raised"
                 /\ UNCHANGED <<opt, model, out>>
       ELSE /\ pc' = "pretrained"
            /\ UNCHANGED <<opt, model, out>>
    /\ UNCHANGED <<files, model_dir, num_batches, runs, argv, optimizer, epoch,
                   next_epoch, iteration, batch, loss, grads, lr, clip, saved>>

\* lines 55-62
Resume ==
    /\ pc = "resume"
    /\ pc' = "pretrained"
    /\ IF opt.resume # NoPath
       THEN IF isfile(opt.resume)
            THEN LET checkpoint == files[opt.resume] IN
                 /\ opt' = [opt EXCEPT !.start_epoch = checkpoint.epoch + 1]
                 /\ model' = checkpoint.model
                 /\ out' = Append(out, <<"===> loading checkpoint: ", opt.resume>>)
            ELSE /\ out' = Append(out, <<"===> no checkpoint found at ", opt.resume>>)
                 /\ UNCHANGED <<opt, model>>
       ELSE UNCHANGED <<opt, model, out>>
    /\ UNCHANGED <<files, model_dir, num_batches, runs, argv, optimizer, epoch,
                   next_epoch, iteration, batch, loss, grads, lr, clip, saved>>

\* a pretrained load that gives way to a checkpoint that was resumed
Pretrained_AfterResumeSkipped ==
    /\ pc = "pretrained"
    /\ pc' = "optimizer"
    /\ IF opt.pretrained # NoPath /\ ~(opt.resume # NoPath /\ isfile(opt.resume))
       THEN IF isfile(opt.pretrained)
            THEN /\ model' = files[opt.pretrained].model
                 /\ out' = Append(out, <<"===> load model ", opt.pretrained>>)
            ELSE /\ out' = Append(out, <<"===> no model found at ", opt.pretrained>>)
                 /\ UNCHANGED model
       ELSE UNCHANGED <<model, out>>
    /\ UNCHANGED <<files, model_dir, num_batches, runs, argv, opt, optimizer,
                   epoch, next_epoch, iteration, batch, loss, grads, lr, clip, saved>>

\* lines 65-71
Pretrained ==
    /\ pc = "pretrained"
    /\ pc' = "optimizer"
    /\ IF opt.pretrained # NoPath
       THEN IF isfile(opt.pretrained)
            THEN LET weights == files[opt.pretrained] IN
                 /\ model' = weights.model
                 /\ out' = Append(out, <<"===> load model ", opt.pretrained>>)
            ELSE /\ out' = Append(out, <<"===> no model found at ", opt.pretrained>>)
                 /\ UNCHANGED model
       ELSE UNCHANGED <<model, out>>
    /\ UNCHANGED <<files, model_dir, num_batches, runs, argv, opt, optimizer,
                   epoch, next_epoch, iteration, batch, loss, grads, lr, clip, saved>>

\* lines 73-77: optim.SGD(model.parameters(), lr=opt.lr, momentum=opt.momentum,
\* ...), then range(opt.start_epoch, opt.nEpochs + 1) is evaluated
SGD == [param_groups |-> [g \in 1..NumGroups |-> [lr |-> opt.lr]],
        momentum |-> opt.momentum,
        nbuf |-> 0,
        steps |-> 0]

SetOptimizer ==
    /\ pc = "optimizer"
    /\ pc' = "epoch"
    /\ optimizer' = SGD
    /\ next_epoch' = opt.start_epoch
    /\ UNCHANGED <<files, model_dir, num_batches, runs, argv, opt, model, epoch,
                   iteration, batch, loss, grads, lr, clip, out, saved>>

\* line 77: for epoch in range(opt.start_epoch, opt.nEpochs + 1)
EpochLoop ==
    /\ pc = "epoch"
    /\ IF next_epoch <= opt.nEpochs
       THEN /\ epoch' = next_epoch
            /\ next_epoch' = next_epoch + 1
            /\ pc' = "train"
       ELSE /\ pc' = "done"
            /\ UNCHANGED <<epoch, next_epoch>>
    /\ UNCHANGED <<files, model_dir, num_batches, runs, argv, opt, model,
                   optimizer, iteration, batch, loss, grads, lr, clip, out, saved>>

\* ------------------------------------------------------------------ train
\* a scheduler indexed by the epoch number instead of epoch - 1
AdjustLearningRate_OneBased(optimizer_, epoch_) ==
    RatMul(opt.lr, HalfPow((epoch_ + 1) \div opt.step))

\* lines 84-87
AdjustLearningRate(optimizer_, epoch_) ==
    RatMul(opt.lr, HalfPow(epoch_ \div opt.step))

\* lines 92-97: the lr policy, then model.train(); the loop of line 99 starts
TrainLr ==
    /\ pc = "train"
    /\ LET lr_ == AdjustLearningRate(optimizer, epoch - 1) IN
       /\ lr' = lr_
       /\ optimizer' = [optimizer EXCEPT !.param_groups =
                            [g \in DOMAIN @ |-> [@[g] EXCEPT !.lr = lr_]]]
       /\ out' = Append(out, <<"Epoch=, lr=", epoch, lr_>>)
    /\ iteration' = 0
    /\ pc' = "for"
    /\ UNCHANGED <<files, model_dir, num_batches, runs, argv, opt, model, epoch,
                   next_epoch, batch, loss, grads, clip, saved>>

\* a loop that fails on a data loader without batches
ForBatch_RaisesOnEmpty ==
    /\ pc = "for"
    /\ IF iteration < num_batches
       THEN /\ iteration' = iteration + 1
            /\ batch' = Batch(epoch, iteration + 1)
            /\ pc' = "forward"
       ELSE /\ pc' = IF num_batches = 0 THEN "raised" ELSE "save"
            /\ UNCHANGED <<iteration, batch>>
    /\ UNCHANGED <<files, model_dir, num_batches, runs, argv, opt, model,
                   optimizer, epoch, next_epoch, loss, grads, lr, clip, out, saved>>

\* lines 99-103: the next batch, or the end of train()
ForBatch ==
    /\ pc = "for"
    /\ IF iteration < num_batches
       THEN /\ iteration' = iteration + 1
            /\ batch' = Batch(epoch, iteration + 1)
            /\ pc' = "forward"
       ELSE /\ pc' = "save"
            /\ UNCHANGED <<iteration, batch>>
    /\ UNCHANGED <<files, model_dir, num_batches, runs, argv, opt, model,
                   optimizer, epoch, next_epoch, loss, grads, lr, clip, out, saved>>

\* line 105: loss = criterion(model(input), target)
Forward ==
    /\ pc = "forward"
    /\ loss' = <<batch>>
    /\ pc' = "zero_grad"
    /\ UNCHANGED <<files, model_dir, num_batches, runs, argv, opt, model,
                   optimizer, epoch, next_epoch, iteration, batch, grads, lr, clip,
                   out, saved>>

\* a loop that never zeroes the gradients
ZeroGrad_Missing ==
    /\ pc = "zero_grad"
    /\ pc' = "backward"
    /\ UNCHANGED <<files, model_dir, num_batches, runs, argv, opt, model,
                   optimizer, epoch, next_epoch, iteration, batch, loss, grads, lr,
                   clip, out, saved>>

\* line 106: optimizer.zero_grad()
ZeroGrad ==
    /\ pc = "zero_grad"
    /\ grads' = ZeroGrads
    /\ pc' = "backward"
    /\ UNCHANGED <<files, model_dir, num_batches, runs, argv, opt, model,
                   optimizer, epoch, next_epoch, iteration, batch, loss, lr, clip,
                   out, saved>>

\* line 107: loss.backward() adds the gradients of loss to .grad
Backward ==
    /\ pc = "backward"
    /\ grads' = [src |-> Append(grads.src, loss[1]), max_norm |-> NoValue]
    /\ pc' = "clip"
    /\ UNCHANGED <<files, model_dir, num_batches, runs, argv, opt, model,
                   optimizer, epoch, next_epoch, iteration, batch, loss, lr, clip,
                   out, saved>>

\* a clip threshold that does not follow the learning rate
ClipGrad_FixedThreshold ==
    /\ pc = "clip"
    /\ clip' = opt.clip
    /\ grads' = [grads EXCEPT !.max_norm = opt.clip]
    /\ pc' = "step"
    /\ UNCHANGED <<files, model_dir, num_batches, runs, argv, opt, model,
                   optimizer, epoch, next_epoch, iteration, batch, loss, lr, out,
                   saved>>

\* lines 109-110: clip = opt.clip / lr; clip_grad_norm(model.parameters(), clip)
ClipGrad ==
    /\ pc = "clip"
    /\ LET clip_ == RatDiv(opt.clip, lr) IN
       /\ clip' = clip_
       /\ grads' = [grads EXCEPT !.max_norm = clip_]
    /\ pc' = "step"
    /\ UNCHANGED <<files, model_dir, num_batches, runs, argv, opt, model,
                   optimizer, epoch, next_epoch, iteration, batch, loss, lr, out,
                   saved>>

\* line 111: optimizer.step(): every group's parameters move by its lr along
\* the gradients and (momentum # 0) the momentum buffer, which takes them in
Update == [grads |-> grads,
           lr |-> [g \in DOMAIN optimizer.param_groups |->
                      optimizer.param_groups[g].lr],
           mom |-> optimizer.nbuf]

Step ==
    /\ pc = "step"
    /\ model' = [model EXCEPT !.updates = Append(@, Update)]
    /\ optimizer' = [optimizer EXCEPT
                        !.nbuf = IF optimizer.momentum # 0 THEN @ + 1 ELSE @,
                        !.steps = @ + 1]
    /\ pc' = "log"
    /\ UNCHANGED <<files, model_dir, num_batches, runs, argv, opt, epoch,
                   next_epoch, iteration, batch, loss, grads, lr, clip, out, saved>>

\* a progress line at the first of every 100 iterations
Log_FromFirstIteration ==
    /\ pc = "log"
    /\ IF (iteration - 1) % LogEvery = 0
       THEN out' = Append(out, <<"===> Epoch[]: Loss: ", epoch, iteration,
                                 num_batches, loss>>)
       ELSE UNCHANGED out
    /\ pc' = "for"
    /\ UNCHANGED <<files, model_dir, num_batches, runs, argv, opt, model,
                   optimizer, epoch, next_epoch, iteration, batch, loss, grads, lr,
                   clip, saved>>

\* lines 112-114
Log ==
    /\ pc = "log"
    /\ IF iteration % LogEvery = 0
       THEN out' = Append(out, <<"===> Epoch[]: Loss: ", epoch, iteration,
                                 num_batches, loss>>)
       ELSE UNCHANGED out
    /\ pc' = "for"
    /\ UNCHANGED <<files, model_dir, num_batches, runs, argv, opt, model,
                   optimizer, epoch, next_epoch, iteration, batch, loss, grads, lr,
                   clip, saved>>

\* a failure handler that saves the weights of the unfinished epoch
Raise_SavesPartial ==
    /\ pc \in {"forward", "backward", "step"}
    /\ pc' = "raised"
    /\ model_dir' = TRUE
    /\ files' = [p \in DOMAIN files \cup {ModelOutPath(epoch)} |->
                    IF p = ModelOutPath(epoch)
                    THEN [epoch |-> epoch, model |-> model] ELSE files[p]]
    /\ saved' = Append(saved, ModelOutPath(epoch))
    /\ UNCHANGED <<num_batches, runs, argv, opt, model, optimizer, epoch,
                   next_epoch, iteration, batch, loss, grads, lr, clip, out>>

\* an exception in the forward pass, the backward pass or the update
\* (lines 105, 107, 111) ends the process
Raise ==
    /\ pc \in {"forward", "backward", "step"}
    /\ pc' = "raised"
    /\ UNCHANGED <<files, model_dir, num_batches, runs, argv, opt, model,
                   optimizer, epoch, next_epoch, iteration, batch, loss, grads, lr,
                   clip, out, saved>>

\* ------------------------------------------------------- save_checkpoint
\* a checkpoint that stores the number of the epoch to run next
SaveCheckpoint_StoresNextEpoch ==
    /\ pc = "save"
    /\ LET model_out_path == ModelOutPath(epoch)
           state == [epoch |-> epoch + 1, model |-> model]
       IN /\ model_dir' = TRUE
          /\ files' = [p \in DOMAIN files \cup {model_out_path} |->
                          IF p = model_out_path THEN state ELSE files[p]]
          /\ saved' = Append(saved, model_out_path)
          /\ out' = Append(out, <<"Checkpoint saved to ", model_out_path>>)
    /\ pc' = "epoch"
    /\ UNCHANGED <<num_batches, runs, argv, opt, model, optimizer, epoch,
                   next_epoch, iteration, batch, loss, grads, lr, clip>>

\* line 79 and lines 117-125
SaveCheckpoint ==
    /\ pc = "save"
    /\ LET model_out_path == ModelOutPath(epoch)
           state == [epoch |-> epoch, model |-> model]
       IN /\ model_dir' = TRUE
          /\ files' = [p \in DOMAIN files \cup {model_out_path} |->
                          IF p = model_out_path THEN state ELSE files[p]]
          /\ saved' = Append(saved, model_out_path)
          /\ out' = Append(out, <<"Checkpoint saved to ", model_out_path>>)
    /\ pc' = "epoch"
    /\ UNCHANGED <<num_batches, runs, argv, opt, model, optimizer, epoch,
                   next_epoch, iteration, batch, loss, grads, lr, clip>>

\* ---------------------------------------------------------- specification
\* the checkpoints found on the disk that no process of the model wrote
ForeignFiles ==
    {[p \in {CheckpointPath, PretrainedPath} |->
         IF p = CheckpointPath
         THEN [epoch |-> n, model |-> CheckpointModel]
         ELSE [epoch |-> m, model |-> PretrainedModel]] :
     n \in CheckpointEpochs, m \in PretrainedEpochs}

\* the command lines a process is started with
Options ==
    [lr : LearningRates, step : Steps, clip : Clips, momentum : Momenta,
     start_epoch : StartEpochs, nEpochs : NEpochs,
     resume : {NoPath, MissingPath, CheckpointPath},
     pretrained : {NoPath, MissingPath, PretrainedPath}]

\* the state at line 54 of the first process
Started(a) ==
    /\ runs = 1
    /\ argv = a
    /\ opt = a
    /\ model = Fresh(1)
    /\ optimizer = NoOptimizer
    /\ epoch = 0
    /\ next_epoch = 0
    /\ iteration = 0
    /\ batch = NoValue
    /\ loss = NoValue
    /\ grads = ZeroGrads
    /\ lr = NoValue
    /\ clip = NoValue
    /\ out = <<>>
    /\ saved = <<>>
    /\ pc = "resume"

Init ==
    /\ files \in ForeignFiles
    /\ model_dir = FALSE
    /\ num_batches \in 0..MaxBatches
    /\ \E a \in Options : Started(a)

Next ==
    \/ Resume
    \/ Pretrained
    \/ SetOptimizer
    \/ EpochLoop
    \/ TrainLr
    \/ ForBatch
    \/ Forward
    \/ ZeroGrad
    \/ Backward
    \/ ClipGrad
    \/ Step
    \/ Log
    \/ Raise
    \/ SaveCheckpoint

\* one process, started with any command line
Spec == Init /\ [][Next]_vars

\* the same, with the process running on until it ends: nothing but the end
\* of main() or an exception stops the single thread of the program
FairSpec == Init /\ [][Next]_vars /\ WF_vars(Next)

\* A training from scratch that is continued: when a process has ended, the
\* program is started again with the same hyperparameters and --resume naming
\* the last checkpoint the ended process saved.
Rerun ==
    /\ pc \in {"done", "raised"}
    /\ runs < MaxRuns
    /\ saved # <<>>
    /\ \E n \in NEpochs :
          Main([argv EXCEPT !.resume = saved[Len(saved)], !.nEpochs = n], runs)
    /\ UNCHANGED <<files, model_dir, num_batches>>

InitResume ==
    /\ files \in ForeignFiles
    /\ model_dir = FALSE
    /\ num_batches \in 1..MaxBatches
    /\ \E a \in Options :
          /\ a.resume = NoPath
          /\ a.pretrained \in {NoPath, MissingPath}
          /\ Started(a)

NextResume == Next \/ Rerun

SpecResume == InitResume /\ [][NextResume]_vars

\* one process whose epochs are long enough for progress lines
InitLog ==
    /\ files \in ForeignFiles
    /\ model_dir = FALSE
    /\ num_batches = LogBatches
    /\ \E a \in Options :
          /\ a.resume = NoPath
          /\ a.pretrained = NoPath
          /\ a.step = 1
          /\ Started([a EXCEPT !.nEpochs = a.start_epoch + 1])

SpecLog == InitLog /\ [][Next]_vars

\* ================================================================ claims
\* the paths of the checkpoints of epochs a..b, in ascending order
EpochPaths(a, b) == [i \in 1..(b - a + 1) |-> ModelOutPath(a + i - 1)]

RatEq(x, y) == x[1] * y[2] = y[1] * x[2]

\* x = y * 0.5^k
HalvedTimes(x, y, k) == x[1] * Pow2(k) * y[2] = y[1] * x[2]

\* train() is past its lr policy
InLoop == pc \in {"for", "forward", "zero_grad", "backward", "clip", "step", "log"}

\* the process has got as far as the epoch loop
Training == pc \in {"epoch", "train", "save", "done", "raised"} \/ InLoop

\* the last epoch whose batches have all been processed (the one before the
\* first epoch when there is none)
LastProcessed ==
    CASE pc \in {"resume", "pretrained", "optimizer"} -> opt.start_epoch - 1
      [] pc \in {"epoch", "done"} -> next_epoch - 1
      [] pc = "save" -> epoch
      [] pc = "for" /\ iteration = num_batches -> epoch
      [] OTHER -> epoch - 1

\* the last epoch whose save_checkpoint call has returned
LastSaved ==
    CASE pc \in {"resume", "pretrained", "optimizer"} -> opt.start_epoch - 1
      [] pc \in {"epoch", "done"} -> next_epoch - 1
      [] OTHER -> epoch - 1

\* C1 as stated: at every point of a run the checkpoints written so far are
\* exactly those of epochs start_epoch..k, in ascending order and one per epoch,
\* k being the last epoch whose batches have all been processed.
C1_AsStated == saved = EpochPaths(opt.start_epoch, LastProcessed)

\* C1 amended: at every point of a run the checkpoints written so far are
\* exactly those of epochs start_epoch..k, in ascending order and one per epoch,
\* k being the last epoch whose save_checkpoint call has returned; k is the last
\* epoch whose batches have all been processed, or the one before it while the
\* save that follows train() has not run yet.  Each file holds its epoch number
\* and the weights after all the batches of that epoch, and none is written for
\* an epoch in progress or ended by a failure.
C1_CheckpointsOfCompletedEpochs ==
    /\ saved = EpochPaths(opt.start_epoch, LastSaved)
    /\ LastSaved \in {LastProcessed, LastProcessed - 1}
    /\ pc \notin {"save", "for"} => LastSaved = LastProcessed
    /\ \A i \in 1..Len(saved) :
          /\ isfile(saved[i])
          /\ files[saved[i]].epoch = opt.start_epoch + i - 1
          /\ Len(files[saved[i]].model.updates) = i * num_batches
    /\ pc = "raised" => ModelOutPath(epoch) \notin {saved[i] : i \in 1..Len(saved)}

\* a later epoch fails after earlier epochs were saved
C1_Witness ==
    /\ pc = "raised"
    /\ iteration = 2
    /\ Len(saved) = 2
    /\ Len(model.updates) > Len(files[saved[2]].model.updates)

FirstEpoch == (pc = "train" \/ InLoop) /\ saved = <<>> /\ optimizer.steps = 0

\* the printed lines of one kind
Lines(kind) == {i \in 1..Len(out) : out[i][1] = kind}

\* C3: resumed from an existing checkpoint with stored epoch n and no
\* pretrained path, the first epoch trained is n + 1 whatever --start-epoch was,
\* the weights at the first batch are the checkpoint's, and the optimizer is
\* created after the load and holds no momentum state.
C3_ResumeFromCheckpoint ==
    argv.resume # NoPath /\ isfile(argv.resume) /\ argv.pretrained = NoPath =>
        /\ pc \in {"resume", "pretrained"} => optimizer = NoOptimizer
        /\ pc # "resume" => opt.start_epoch = files[argv.resume].epoch + 1
        /\ FirstEpoch =>
              /\ epoch = files[argv.resume].epoch + 1
              /\ model = files[argv.resume].model
              /\ optimizer.nbuf = 0

\* the first batch of a process that resumed a checkpoint whose weights were
\* trained with momentum by an earlier process, with another --start-epoch
C3_Witness ==
    /\ runs = 2
    /\ pc = "forward"
    /\ FirstEpoch
    /\ argv.pretrained = NoPath
    /\ argv.start_epoch # epoch
    /\ model.updates # <<>>
    /\ model.updates[Len(model.updates)].mom > 0
    /\ optimizer.nbuf = 0

\* what one uninterrupted process, started from scratch at epoch s, applies to
\* its weights up to the end of epoch n
LrOfEpoch(e) == RatMul(opt.lr, HalfPow((e - 1) \div opt.step))

UpdateOfBatch(e, i, nbuf) ==
    [grads |-> [src |-> <<Batch(e, i)>>, max_norm |-> RatDiv(opt.clip, LrOfEpoch(e))],
     lr |-> [g \in 1..NumGroups |-> LrOfEpoch(e)],
     mom |-> nbuf]

Uninterrupted(s, n) ==
    [p \in 1..((n - s + 1) * num_batches) |->
        UpdateOfBatch(s + (p - 1) \div num_batches, ((p - 1) % num_batches) + 1,
                      IF opt.momentum # 0 THEN p - 1 ELSE 0)]

\* the updates without the state of the momentum buffer
NoMomentum(updates) == [p \in DOMAIN updates |-> [updates[p] EXCEPT !.mom = 0]]

\* C4: a training from scratch that is interrupted and resumed from its last
\* checkpoint ends with the weights of one uninterrupted run of the same epochs
\* (the same initial weights and, batch by batch, the same gradients sources,
\* clip thresholds and learning rates), the state of the momentum buffer apart:
\* they are identical when momentum is 0.  The resumed epochs have the names
\* and the learning rates they have in the uninterrupted run.
C4_ResumeContinuity ==
    runs >= 2 /\ pc = "done" =>
        /\ model.init = Fresh(1).init
        /\ NoMomentum(model.updates) =
              NoMomentum(Uninterrupted(argv.start_epoch, next_epoch - 1))
        /\ opt.momentum = 0 =>
              model.updates = Uninterrupted(argv.start_epoch, next_epoch - 1)
        /\ saved = EpochPaths(opt.start_epoch, opt.nEpochs)
        /\ \A i \in Lines("Epoch=, lr=") : out[i][3] = LrOfEpoch(out[i][2])
        /\ \A e \in opt.start_epoch..opt.nEpochs :
              \E i \in Lines("Epoch=, lr=") : out[i][2] = e

\* epochs 1..3, then resumed from the epoch-3 checkpoint up to epoch 5
C4_Witness ==
    /\ runs = 2
    /\ pc = "done"
    /\ argv.start_epoch = 1
    /\ argv.resume = ModelOutPath(3)
    /\ opt.nEpochs = 5
    /\ epoch = 5
    /\ opt.momentum # 0
    /\ Len(model.updates) = 5 * num_batches
    /\ model.updates[Len(model.updates)].mom < Len(model.updates) - 1

BothLoaded ==
    /\ argv.resume # NoPath /\ isfile(argv.resume)
    /\ argv.pretrained # NoPath /\ isfile(argv.pretrained)

\* C5 as stated: with a resume path and a pretrained path that both exist,
\* the first trained epoch starts from the weights of the resume checkpoint, at
\* its stored epoch + 1.
C5_AsStated ==
    BothLoaded /\ FirstEpoch =>
        /\ epoch = files[argv.resume].epoch + 1
        /\ model = files[argv.resume].model

\* C5 amended: with a resume path and a pretrained path that both exist, the
\* first trained epoch is the resume checkpoint's stored epoch + 1, and it starts
\* from the weights of the pretrained file, which is loaded after the resume
\* checkpoint and replaces its weights.
C5_ResumeEpochPretrainedWeights ==
    BothLoaded =>
        /\ pc = "pretrained" => model = files[argv.resume].model
        /\ FirstEpoch =>
              /\ epoch = files[argv.resume].epoch + 1
              /\ model = files[argv.pretrained].model

\* the first batch of a run given both files, which hold different weights
C5_Witness ==
    /\ BothLoaded
    /\ FirstEpoch
    /\ pc = "forward"
    /\ files[argv.resume].model # files[argv.pretrained].model
    /\ epoch # argv.start_epoch

ResumeMissing == argv.resume # NoPath /\ ~isfile(argv.resume)

PretrainedMissing == argv.pretrained # NoPath /\ ~isfile(argv.pretrained)

ResumeLoaded == argv.resume # NoPath /\ isfile(argv.resume)

PretrainedLoaded == argv.pretrained # NoPath /\ isfile(argv.pretrained)

\* C6 as stated: when the resume path or the pretrained path is given and
\* missing, the run trains its first epoch with the freshly initialised weights
\* and from the configured start epoch.
C6_AsStated ==
    (ResumeMissing \/ PretrainedMissing) /\ FirstEpoch =>
        /\ model = Fresh(runs)
        /\ epoch = argv.start_epoch

\* C6 amended: a resume path or a pretrained path that is given and missing
\* raises no error, prints its "not found" notice, and changes neither the
\* weights nor the start epoch; when the other path is not given or missing too,
\* the model keeps its freshly initialised weights, the start epoch stays the
\* configured one and a run that ends normally has trained and saved epochs
\* start_epoch..nEpochs.  A missing resume path with an existing pretrained path
\* trains the pretrained weights from the configured start epoch; a missing
\* pretrained path with an existing resume path trains the checkpoint's weights
\* from its stored epoch + 1.
C6_MissingFilesAreSkipped ==
    /\ pc = "raised" => optimizer # NoOptimizer /\ iteration >= 1
    /\ ResumeMissing =>
          /\ opt.start_epoch = argv.start_epoch
          /\ pc # "resume" =>
                \E i \in Lines("===> no checkpoint found at ") : out[i][2] = argv.resume
          /\ pc = "pretrained" => model = Fresh(runs)
          /\ FirstEpoch =>
                /\ epoch = argv.start_epoch
                /\ model = IF PretrainedLoaded THEN files[argv.pretrained].model
                           ELSE Fresh(runs)
    /\ PretrainedMissing =>
          /\ pc \notin {"resume", "pretrained"} =>
                \E i \in Lines("===> no model found at ") : out[i][2] = argv.pretrained
          /\ FirstEpoch =>
                /\ epoch = IF ResumeLoaded THEN files[argv.resume].epoch + 1
                           ELSE argv.start_epoch
                /\ model = IF ResumeLoaded THEN files[argv.resume].model
                           ELSE Fresh(runs)
    /\ (ResumeMissing \/ PretrainedMissing) /\ pc = "done" =>
          saved = EpochPaths(opt.start_epoch, opt.nEpochs)

\* a run given two missing paths that has trained all its epochs
C6_Witness ==
    /\ ResumeMissing
    /\ PretrainedMissing
    /\ pc = "done"
    /\ argv.start_epoch = 2
    /\ saved = EpochPaths(2, MaxEpoch)
    /\ Len(model.updates) > 0
    /\ Len(out) >= 2

\* the epochs of this process before the current one
EpochsBefore == epoch - opt.start_epoch

\* the iterations of the current epoch whose line 112 has been passed
Logged ==
    CASE pc \in {"forward", "zero_grad", "backward", "clip", "step", "log"} -> iteration - 1
      [] pc = "raised" -> iteration - 1
      [] pc \in {"for", "save"} -> iteration
      [] OTHER -> 0

\* the iterations of the progress lines of epoch e, in the order printed
ProgressOf(e) == {i \in Lines("===> Epoch[]: Loss: ") : out[i][2] = e}

\* C7: in every epoch the iteration counter runs from 1, and a progress line
\* is printed at exactly the iterations that are positive multiples of 100: an
\* epoch of N batches prints N \div 100 of them; printing one changes no weight,
\* gradient, learning rate or epoch counter.
C7_StateOfProgressLines ==
    /\ pc \in {"forward", "zero_grad", "backward", "clip", "step"} =>
          iteration = optimizer.steps - EpochsBefore * num_batches + 1
    /\ pc \in {"log", "for"} =>
          iteration = optimizer.steps - EpochsBefore * num_batches
    /\ Training /\ pc \notin {"epoch", "done"} =>
          /\ {out[i][3] : i \in ProgressOf(epoch)} =
                {n \in 1..Logged : n % LogEvery = 0}
          /\ Cardinality(ProgressOf(epoch)) = Logged \div LogEvery
    /\ \A e \in opt.start_epoch..(LastSaved) :
          /\ {out[i][3] : i \in ProgressOf(e)} =
                {n \in 1..num_batches : n % LogEvery = 0}
          /\ Cardinality(ProgressOf(e)) = num_batches \div LogEvery
    /\ \A i \in Lines("===> Epoch[]: Loss: ") : out[i][3] > 0

C7_LogChangesNothing ==
    pc = "log" => UNCHANGED <<model, grads, optimizer, lr, clip, epoch, next_epoch,
                              iteration, files, saved>>

\* C7: the progress lines printed are always those of the positive multiples
\* of 100 among the iterations made, the iteration counter restarting at 1 in
\* every epoch, and the step that prints one changes nothing else.
C7_ProgressLines == []C7_StateOfProgressLines /\ [][C7_LogChangesNothing]_vars

\* a second epoch of more than 200 batches has printed its two progress lines
C7_Witness ==
    /\ pc = "save"
    /\ epoch = opt.start_epoch + 1
    /\ num_batches > 2 * LogEvery
    /\ {out[i][3] : i \in ProgressOf(epoch)} = {LogEvery, 2 * LogEvery}
    /\ Cardinality(Lines("===> Epoch[]: Loss: ")) = 4

\* the updates of this process, each with its epoch
EpochOfUpdate(p) == opt.start_epoch + (p - 1) \div num_batches

\* C8: in every iteration of epoch e the gradients are clipped to clip / lr,
\* lr being the rate of the scheduler for epoch e: the threshold is the same for
\* all iterations of an epoch, clip / lr0 doubled once for every halving of the
\* rate, and is not capped.
C8_ClipThreshold ==
    /\ pc \in {"step", "log"} =>
          /\ clip = grads.max_norm
          /\ RatEq(RatMul(clip, lr), opt.clip)
          /\ \A g \in DOMAIN optimizer.param_groups : optimizer.param_groups[g].lr = lr
    /\ Training =>
          \A p \in 1..Len(model.updates) :
             LET u == model.updates[p]
                 e == EpochOfUpdate(p)
             IN /\ \A g \in DOMAIN u.lr : RatEq(RatMul(u.grads.max_norm, u.lr[g]), opt.clip)
                /\ \E k \in 0..e :
                      /\ k * opt.step <= e - 1
                      /\ e - 1 < (k + 1) * opt.step
                      /\ RatEq(u.grads.max_norm,
                               <<opt.clip[1] * opt.lr[2] * Pow2(k), opt.clip[2] * opt.lr[1]>>)
                /\ \A q \in 1..Len(model.updates) :
                      /\ EpochOfUpdate(q) = e => model.updates[q].grads.max_norm = u.grads.max_norm
                      /\ HalvedTimes(model.updates[q].lr[1], u.lr[1], 1) =>
                            HalvedTimes(u.grads.max_norm, model.updates[q].grads.max_norm, 1)

\* the second batch of an epoch whose rate was halved twice: 4 * clip / lr0
C8_Witness ==
    /\ pc = "step"
    /\ iteration = 2
    /\ lr = <<1, 40>>
    /\ clip = <<2, 5>>
    /\ Len(model.updates) >= 3
    /\ model.updates[1].grads.max_norm = <<1, 10>>

\* C9: every batch goes through forward and loss, zero_grad, backward, clip
\* and step in that order, with one optimizer step per batch, made before the
\* next batch is fetched; the gradients a step applies are those of its own
\* batch alone.
C9_OneStepPerBatch ==
    /\ pc = "zero_grad" => loss = <<batch>>
    /\ pc = "backward" => loss = <<batch>> /\ grads = ZeroGrads
    /\ pc = "clip" => grads = [src |-> <<batch>>, max_norm |-> NoValue]
    /\ pc = "step" => grads.src = <<batch>> /\ grads.max_norm = clip
    /\ pc \in {"forward", "zero_grad", "backward", "clip", "step"} =>
          /\ batch = Batch(epoch, iteration)
          /\ optimizer.steps = EpochsBefore * num_batches + iteration - 1
    /\ pc \in {"log", "for"} =>
          optimizer.steps = EpochsBefore * num_batches + iteration
    /\ Training =>
          /\ Len(model.updates) = optimizer.steps
          /\ \A p \in 1..Len(model.updates) :
                model.updates[p].grads.src =
                    <<Batch(EpochOfUpdate(p), ((p - 1) % num_batches) + 1)>>

\* the step of the second batch of a later epoch
C9_Witness ==
    /\ pc = "step"
    /\ iteration = 2
    /\ epoch > opt.start_epoch
    /\ grads.src = <<Batch(epoch, 2)>>
    /\ model.updates[Len(model.updates)].grads.src = <<Batch(epoch, 1)>>

\* the weights the run starts to train
StartWeights ==
    IF PretrainedLoaded THEN files[argv.pretrained].model
    ELSE IF ResumeLoaded THEN files[argv.resume].model
    ELSE Fresh(runs)

\* C10: with a data loader that yields no batch, every epoch of
\* start_epoch..nEpochs sets its learning rate, makes no iteration (no step, no
\* clip, no progress line) and writes its checkpoint with the weights the run
\* started with; the run raises nothing and ends normally.
C10_StateOfEmptyDataset ==
    num_batches = 0 =>
        /\ pc # "raised"
        /\ optimizer.steps = 0 /\ iteration = 0
        /\ clip = NoValue /\ grads = ZeroGrads
        /\ Lines("===> Epoch[]: Loss: ") = {}
        /\ Training => model = StartWeights
        /\ \A i \in 1..Len(saved) : files[saved[i]].model = StartWeights
        /\ pc \in {"for", "save"} =>
              /\ lr = LrOfEpoch(epoch)
              /\ \E i \in Lines("Epoch=, lr=") : out[i][2] = epoch
        /\ pc = "done" =>
              /\ saved = EpochPaths(opt.start_epoch, opt.nEpochs)
              /\ Cardinality(Lines("Epoch=, lr=")) = Len(saved)

\* C10: a run whose data loader yields no batch makes no iteration, saves
\* every epoch with the weights it started with, raises nothing, and ends.
C10_EmptyDataset ==
    []C10_StateOfEmptyDataset /\ (num_batches = 0 ~> pc = "done")

\* a run without batches has ended after saving several epochs
C10_Witness ==
    /\ num_batches = 0
    /\ pc = "done"
    /\ Len(saved) >= 3
    /\ files[saved[3]].model = StartWeights

====
